---- MODULE Spec2Model ----
(***************************************************************************)
(* The pagination / fan-in fetch pipeline of repo-backup (github.go):      *)
(* getPaginated drives a page fetcher in its own goroutine and hands each   *)
(* page over an unbuffered channel; merge starts one forwarding goroutine   *)
(* per channel plus a closer that waits on the WaitGroup; main ranges over  *)
(* the merged channel.                                                      *)
(***************************************************************************)
EXTENDS Integers, Sequences, FiniteSets, Bags, TLC

\* ---- bounds of the model ------------------------------------------------
MaxLastPage == 2
MaxPageLen == 2

\* ---- data ---------------------------------------------------------------
githubProviderName == "github.com"

\* FetchGithubRepos hands merge at most two channels: source 1 is the
\* owned/organisation paginator, source 2 the starred paginator.
NumSources == 2

\* One Repo as the page fetchers build it from the i-th entry of page k of
\* source s: a fixed provider, the entry's full name, the entry's git URL.
Repo(s, k, i) ==
    [Provider |-> githubProviderName, Name |-> <<s, k, i>>, URL |-> <<"git", s, k, i>>]

\* Number of entries the upstream API holds on page k of source s.
PageLen(s, k) == (s + k) % (MaxPageLen + 1)

\* The batch a successful getPage(ctx, k) of source s returns.
PageOf(s, k) == [i \in 1..PageLen(s, k) |-> Repo(s, k, i)]

\* ---- configuration ------------------------------------------------------
\* type Github struct: every value with an empty or a set APIKey
GithubConfigs ==
    [APIKey : {"", "450ef93b"}, SkipOwned : BOOLEAN, SkipStarred : BOOLEAN,
     SkipOrganisations : BOOLEAN, SkipCollaborator : BOOLEAN]

\* type Gitlab struct: Secret and Host (the skip flags only pick the
\* projects the upstream API lists)
GitlabConfigs == [Secret : {"", "s3cret"}, Host : {"", "git.example.com"}]

\* the zero values Github{} and Gitlab{}
ZeroGithub ==
    [APIKey |-> "", SkipOwned |-> FALSE, SkipStarred |-> FALSE,
     SkipOrganisations |-> FALSE, SkipCollaborator |-> FALSE]
ZeroGitlab == [Secret |-> "", Host |-> ""]

\* A pointer is a sequence: empty for nil, else holding the value pointed to.
NilPtr == <<>>
Ptr(v) == <<v>>

\* type Config struct: General by value, Gitlab and Github by pointer
Configs ==
    [General : [Root : {"", "/backups"}],
     Gitlab : {NilPtr} \cup {Ptr(g) : g \in GitlabConfigs},
     Github : {NilPtr} \cup {Ptr(g) : g \in GithubConfigs}]

\* the zero value Config{}
ZeroConfig == [General |-> [Root |-> ""], Gitlab |-> NilPtr, Github |-> NilPtr]

ErrMissingRoot == "No root provided"
ErrMissingGithubApiKey == "Missing GitHub API key"
ErrMissingGitlabApiKey == "Missing GitLab API key"

\* an error value: nil, a manyErrors, or the decoder's error
NilError == [kind |-> "nil", Errors |-> <<>>]
ManyErrors(errs) == [kind |-> "manyErrors", Errors |-> errs]
DecodeError == [kind |-> "decode", Errors |-> <<>>]

\* func (g General) Valid(), func (g Gitlab) Valid(), func (g Github) Valid():
\* the error each returns, as a list of zero or one errors
GeneralValid(g) == IF g.Root = "" THEN <<ErrMissingRoot>> ELSE <<>>
GitlabValid(g) == IF g.Secret = "" THEN <<ErrMissingGitlabApiKey>> ELSE <<>>
GithubValid(g) == IF g.APIKey = "" THEN <<ErrMissingGithubApiKey>> ELSE <<>>

\* variant of ConfigValid: returns at the first failing section
ConfigValidFirstOnly(c) ==
    IF c.Gitlab = NilPtr \/ c.Github = NilPtr
    THEN [panicked |-> TRUE, err |-> NilError]
    ELSE LET errs == GeneralValid(c.General) \o GitlabValid(c.Gitlab[1])
                        \o GithubValid(c.Github[1])
         IN  [panicked |-> FALSE,
              err |-> IF Len(errs) # 0 THEN ManyErrors(<<errs[1]>>) ELSE NilError]

\* func (c Config) Valid() error. check(v) takes an interface value: a nil
\* *Gitlab or *Github stored in it still has a dynamic type, so `v != nil`
\* holds and v.Valid(), a value-receiver method, dereferences the nil pointer.
ConfigValid(c) ==
    IF c.Gitlab = NilPtr \/ c.Github = NilPtr
    THEN [panicked |-> TRUE, err |-> NilError]
    ELSE LET errs == GeneralValid(c.General) \o GitlabValid(c.Gitlab[1])
                        \o GithubValid(c.Github[1])
         IN  [panicked |-> FALSE,
              err |-> IF Len(errs) # 0 THEN ManyErrors(errs) ELSE NilError]

\* what parseTomlConfig / parseJSONConfig do with a body that decodes to cfg
\* (or does not decode)
ParseResult(b) ==
    IF ~b.decodes THEN [status |-> "returned", cfg |-> ZeroConfig, err |-> DecodeError]
    ELSE IF ConfigValid(b.cfg).panicked
         THEN [status |-> "panicked", cfg |-> ZeroConfig, err |-> NilError]
    ELSE IF ConfigValid(b.cfg).err # NilError
         THEN [status |-> "returned", cfg |-> ZeroConfig, err |-> ConfigValid(b.cfg).err]
    ELSE [status |-> "returned", cfg |-> b.cfg, err |-> NilError]

Unparsed == [status |-> "unparsed", cfg |-> ZeroConfig, err |-> NilError]

\* strings.Join(list, sep)
RECURSIVE Join(_, _)
Join(list, sep) ==
    IF Len(list) = 0 THEN ""
    ELSE IF Len(list) = 1 THEN list[1]
    ELSE list[1] \o sep \o Join(Tail(list), sep)

\* variant of affiliationList: the third test reads SkipOrganisations again
affiliationListCopyPaste(g) ==
    (IF ~g.SkipOwned THEN <<"owner">> ELSE <<>>)
        \o (IF ~g.SkipOrganisations THEN <<"organization_member">> ELSE <<>>)
        \o (IF ~g.SkipOrganisations THEN <<"collaborator">> ELSE <<>>)

\* the slice Github.affiliations builds before joining it
affiliationList(g) ==
    (IF ~g.SkipOwned THEN <<"owner">> ELSE <<>>)
        \o (IF ~g.SkipOrganisations THEN <<"organization_member">> ELSE <<>>)
        \o (IF ~g.SkipCollaborator THEN <<"collaborator">> ELSE <<>>)

\* func (g Github) affiliations() string
affiliations(g) ==
    IF Len(affiliationList(g)) = 0 THEN "" ELSE Join(affiliationList(g), ",")

\* the paginators FetchGithubRepos creates: 1 for getOwnedAndOrgs, 2 for
\* getStarredRepos
GithubSources(g) ==
    (IF affiliations(g) # "" THEN {1} ELSE {})
        \cup (IF ~g.SkipStarred THEN {2} ELSE {})

gitlabProviderName == "gitlab.com"

\* func (g Gitlab) Provider() string
GitlabProvider(g) == IF g.Host # "" THEN g.Host ELSE gitlabProviderName

\* variant of GitlabRepo: Provider is the constant, as in the GitHub fetchers
GitlabRepoConstProvider(g, k, i) ==
    [Provider |-> gitlabProviderName, Name |-> <<1, k, i>>, URL |-> <<"ssh", 1, k, i>>]

\* One Repo as FetchGitlabRepos' get builds it from the i-th project of the
\* response to request k.
GitlabRepo(g, k, i) ==
    [Provider |-> GitlabProvider(g), Name |-> <<1, k, i>>, URL |-> <<"ssh", 1, k, i>>]

\* The batch a successful get(ctx, k) of FetchGitlabRepos returns.
GitlabPageOf(g, k) == [i \in 1..PageLen(1, k) |-> GitlabRepo(g, k, i)]

VARIABLES
    body,        \* the configuration text: whether it decodes, and to what
    parser,      \* which of parseTomlConfig / parseJSONConfig read it
    parsed,      \* what that parser returned
    adapter,     \* which Fetch function built the pipeline: "github" or "gitlab"
    ghcfg,       \* the Github configuration FetchGithubRepos was given
    glcfg,       \* the Gitlab configuration FetchGitlabRepos was given
    cs,          \* the channels handed to merge: one source id per paginator
    lastPage,    \* per source: response.LastPage as the fetcher reports it
    cancelled,   \* ctx.Done() is closed / ctx.Err() != nil
    pc,          \* per source: position of the getPaginated goroutine
    page,        \* per source: getPaginated's page
    numRepos,    \* per source: getPaginated's numRepos
    got,         \* per source: the batch of the last getPage call
    reposClosed, \* per source: close(repos) has run
    opc,         \* per source: position of merge's output goroutine
    items,       \* per source: the batch output is forwarding
    idx,         \* per source: index of the next item of items to send
    wg,          \* merge's WaitGroup counter
    outClosed,   \* close(out) has run
    mainDone,    \* the consumer's receive loop over the merged channel has ended
    calls,       \* history, per source: page indices passed to getPage
    failed,      \* history, per source: a getPage call returned an error
    emitted,     \* history, per source: batches accepted from repos
    lateSends,   \* history, per source: batches accepted after cancellation
    received,    \* history, per source: Repos main received from that source
    dropped,     \* history, per source: the select took the ctx.Done() case
    summary,     \* per source: the "Fetched all pages" entries logged
    closes       \* history: close calls made on each repos channel and on out

vars == <<body, parser, parsed, adapter, ghcfg, glcfg, cs, lastPage, cancelled, pc, page, numRepos, got, reposClosed, opc,
          items, idx, wg, outClosed, mainDone, calls, failed, emitted,
          lateSends, received, dropped, summary, closes>>

envVars == <<body, parser, parsed, adapter, ghcfg, glcfg, cs, lastPage>>

\* what getPage(ctx, k) of source s returns on success
FetchPage(s, k) ==
    IF adapter = "gitlab" THEN GitlabPageOf(glcfg, k) ELSE PageOf(s, k)

pagVars == <<pc, page, numRepos, got, reposClosed>>
outVars == <<opc, items, idx, wg, outClosed, mainDone>>
histVars == <<calls, failed, emitted, lateSends, received>>

\* ---- construction -------------------------------------------------------
\* merge(cs...) over the paginators c, each getPaginated goroutine started
InitPipeline(c) ==
        /\ cs = c
        /\ cancelled = FALSE
        /\ pc = [s \in c |-> "getPage"]
        /\ page = [s \in c |-> 0]
        /\ numRepos = [s \in c |-> 0]
        /\ got = [s \in c |-> <<>>]
        /\ reposClosed = [s \in c |-> FALSE]
        /\ opc = [s \in c |-> "range"]
        /\ items = [s \in c |-> <<>>]
        /\ idx = [s \in c |-> 1]
        /\ wg = Cardinality(c)
        /\ outClosed = FALSE
        /\ mainDone = FALSE
        /\ calls = [s \in c |-> <<>>]
        /\ failed = [s \in c |-> FALSE]
        /\ emitted = [s \in c |-> <<>>]
        /\ lateSends = [s \in c |-> 0]
        /\ received = [s \in c |-> <<>>]
        /\ dropped = [s \in c |-> FALSE]
        /\ summary = [s \in c |-> <<>>]
        /\ closes = [repos |-> [s \in c |-> 0], out |-> 0]

\* main builds its configuration in code: no configuration text is parsed
NoConfigFile ==
    /\ body = [decodes |-> FALSE, cfg |-> ZeroConfig]
    /\ parser = "none"
    /\ parsed = Unparsed

\* FetchGithubRepos(ctx, g, logger); each fetcher reports some LastPage
InitFetchGithub(g) ==
    /\ NoConfigFile
    /\ adapter = "github"
    /\ ghcfg = g
    /\ glcfg = ZeroGitlab
    /\ lastPage \in [GithubSources(g) -> 0..MaxLastPage]
    /\ InitPipeline(GithubSources(g))

\* FetchGitlabRepos(ctx, g, logger): one paginator; gitlabResponse sets
\* LastPage to the TotalPages the API reports
InitFetchGitlab(g) ==
    /\ NoConfigFile
    /\ adapter = "gitlab"
    /\ ghcfg = ZeroGithub
    /\ glcfg = g
    /\ \E TotalPages \in 0..MaxLastPage : lastPage = [s \in {1} |-> TotalPages]
    /\ InitPipeline({1})

\* FetchGithubRepos with a credential, one configuration for each set of
\* paginators it can create (the affiliation flags all set or all clear)
Init ==
    \E g \in GithubConfigs :
        /\ g.APIKey # ""
        /\ g.SkipOrganisations = g.SkipOwned
        /\ g.SkipCollaborator = g.SkipOwned
        /\ InitFetchGithub(g)

\* FetchGithubRepos with a credential and every combination of skip flags
InitGithub ==
    \E g \in GithubConfigs : g.APIKey # "" /\ InitFetchGithub(g)

\* FetchGitlabRepos with every Gitlab configuration
InitGitlab ==
    \E g \in GitlabConfigs : InitFetchGitlab(g)

\* as main calls it: a Github value with nothing but APIKey set (here also
\* with APIKey empty), or the same for FetchGitlabRepos
InitMain ==
    \/ \E g \in GithubConfigs :
          /\ ~g.SkipOwned /\ ~g.SkipStarred
          /\ ~g.SkipOrganisations /\ ~g.SkipCollaborator
          /\ InitFetchGithub(g)
    \/ \E g \in GitlabConfigs : g.Host = "" /\ InitFetchGitlab(g)

\* ---- the caller's cancellation -------------------------------------------
Cancel ==
    /\ ~cancelled
    /\ cancelled' = TRUE
    /\ UNCHANGED <<envVars, closes, dropped, summary, pagVars, outVars, histVars>>

\* ---- getPaginated ----------------------------------------------------------
\* variant of GetPageOk: the fetcher is asked for page + 1 (one-based pages)
GetPageOkOneBased(s) ==
    /\ pc[s] = "getPage"
    /\ calls' = [calls EXCEPT ![s] = Append(@, page[s] + 1)]
    /\ got' = [got EXCEPT ![s] = FetchPage(s, page[s] + 1)]
    /\ pc' = [pc EXCEPT ![s] = "select"]
    /\ UNCHANGED <<envVars, closes, dropped, summary, cancelled, page, numRepos, reposClosed,
                   outVars, failed, emitted, lateSends, received>>

\* got, response, err := getPage(ctx, page) with err == nil
GetPageOk(s) ==
    /\ pc[s] = "getPage"
    /\ calls' = [calls EXCEPT ![s] = Append(@, page[s])]
    /\ got' = [got EXCEPT ![s] = FetchPage(s, page[s])]
    /\ pc' = [pc EXCEPT ![s] = "select"]
    /\ UNCHANGED <<envVars, closes, dropped, summary, cancelled, page, numRepos, reposClosed,
                   outVars, failed, emitted, lateSends, received>>

\* variant of GetPageErr: the break after the warning is missing
GetPageErrNoBreak(s) ==
    /\ pc[s] = "getPage"
    /\ calls' = [calls EXCEPT ![s] = Append(@, page[s])]
    /\ failed' = [failed EXCEPT ![s] = TRUE]
    /\ got' = [got EXCEPT ![s] = <<>>]
    /\ pc' = [pc EXCEPT ![s] = "select"]
    /\ UNCHANGED <<envVars, closes, dropped, summary, cancelled, page, numRepos, reposClosed,
                   outVars, emitted, lateSends, received>>

\* variant of GetPageErr: a failed fetch cancels the shared context
GetPageErrCancels(s) ==
    /\ pc[s] = "getPage"
    /\ calls' = [calls EXCEPT ![s] = Append(@, page[s])]
    /\ failed' = [failed EXCEPT ![s] = TRUE]
    /\ got' = [got EXCEPT ![s] = <<>>]
    /\ pc' = [pc EXCEPT ![s] = "exit"]
    /\ cancelled' = TRUE
    /\ UNCHANGED <<envVars, closes, dropped, summary, page, numRepos, reposClosed,
                   outVars, emitted, lateSends, received>>

\* variant of GetPageErr: close(repos) is not deferred and the error path
\* returns before reaching it
GetPageErrReturnsUnclosed(s) ==
    /\ pc[s] = "getPage"
    /\ calls' = [calls EXCEPT ![s] = Append(@, page[s])]
    /\ failed' = [failed EXCEPT ![s] = TRUE]
    /\ got' = [got EXCEPT ![s] = <<>>]
    /\ pc' = [pc EXCEPT ![s] = "done"]
    /\ UNCHANGED <<envVars, closes, dropped, summary, cancelled, page, numRepos, reposClosed,
                   outVars, emitted, lateSends, received>>

\* getPage returns an error: log a warning and break
GetPageErr(s) ==
    /\ pc[s] = "getPage"
    /\ calls' = [calls EXCEPT ![s] = Append(@, page[s])]
    /\ failed' = [failed EXCEPT ![s] = TRUE]
    /\ got' = [got EXCEPT ![s] = <<>>]
    /\ pc' = [pc EXCEPT ![s] = "exit"]
    /\ UNCHANGED <<envVars, closes, dropped, summary, cancelled, page, numRepos, reposClosed,
                   outVars, emitted, lateSends, received>>

\* select { case repos <- got: } meeting output's receive in `range c`:
\* the channel is unbuffered, so the send completes only with the receive.
SelectSend(s) ==
    /\ pc[s] = "select"
    /\ opc[s] = "range"
    /\ emitted' = [emitted EXCEPT ![s] = Append(@, got[s])]
    /\ lateSends' = [lateSends EXCEPT ![s] = IF cancelled THEN @ + 1 ELSE @]
    /\ items' = [items EXCEPT ![s] = got[s]]
    /\ idx' = [idx EXCEPT ![s] = 1]
    /\ opc' = [opc EXCEPT ![s] = IF Len(got[s]) = 0 THEN "range" ELSE "send"]
    /\ pc' = [pc EXCEPT ![s] = "check"]
    /\ UNCHANGED <<envVars, closes, dropped, summary, cancelled, page, numRepos, got, reposClosed,
                   wg, outClosed, mainDone, calls, failed, received>>

\* variant of SelectDone: the branch is a `default:` and needs no cancellation
SelectDefault(s) ==
    /\ pc[s] = "select"
    /\ pc' = [pc EXCEPT ![s] = "check"]
    /\ dropped' = [dropped EXCEPT ![s] = TRUE]
    /\ UNCHANGED <<envVars, closes, summary, cancelled, page, numRepos, got, reposClosed,
                   outVars, histVars>>

\* select { case <-ctx.Done(): break }: the break leaves the select only
SelectDone(s) ==
    /\ pc[s] = "select"
    /\ cancelled
    /\ pc' = [pc EXCEPT ![s] = "check"]
    /\ dropped' = [dropped EXCEPT ![s] = TRUE]
    /\ UNCHANGED <<envVars, closes, summary, cancelled, page, numRepos, got, reposClosed,
                   outVars, histVars>>

\* variant of LoopCheck: the bound test is page > response.LastPage
LoopCheckOffByOne(s) ==
    /\ pc[s] = "check"
    /\ numRepos' = [numRepos EXCEPT ![s] = @ + Len(got[s])]
    /\ IF cancelled \/ page[s] > lastPage[s]
          THEN /\ pc' = [pc EXCEPT ![s] = "exit"]
               /\ page' = page
          ELSE /\ pc' = [pc EXCEPT ![s] = "getPage"]
               /\ page' = [page EXCEPT ![s] = @ + 1]
    /\ UNCHANGED <<envVars, closes, dropped, summary, cancelled, got, reposClosed, outVars, histVars>>

\* variant of LoopCheck: ctx.Err() is not consulted
LoopCheckIgnoresCtx(s) ==
    /\ pc[s] = "check"
    /\ numRepos' = [numRepos EXCEPT ![s] = @ + Len(got[s])]
    /\ IF page[s] >= lastPage[s]
          THEN /\ pc' = [pc EXCEPT ![s] = "exit"]
               /\ page' = page
          ELSE /\ pc' = [pc EXCEPT ![s] = "getPage"]
               /\ page' = [page EXCEPT ![s] = @ + 1]
    /\ UNCHANGED <<envVars, closes, dropped, summary, cancelled, got, reposClosed, outVars, histVars>>

\* numRepos += len(got); if ctx.Err() != nil || page >= response.LastPage
\* { break }; page++
LoopCheck(s) ==
    /\ pc[s] = "check"
    /\ numRepos' = [numRepos EXCEPT ![s] = @ + Len(got[s])]
    /\ IF cancelled \/ page[s] >= lastPage[s]
          THEN /\ pc' = [pc EXCEPT ![s] = "exit"]
               /\ page' = page
          ELSE /\ pc' = [pc EXCEPT ![s] = "getPage"]
               /\ page' = [page EXCEPT ![s] = @ + 1]
    /\ UNCHANGED <<envVars, closes, dropped, summary, cancelled, got, reposClosed, outVars, histVars>>

\* logger.Debug("Fetched all pages", num-pages: page, num-repos: numRepos),
\* then the deferred close(repos)
CloseRepos(s) ==
    /\ pc[s] = "exit"
    /\ summary' = [summary EXCEPT
                      ![s] = Append(@, [numPages |-> page[s], numRepos |-> numRepos[s]])]
    /\ reposClosed' = [reposClosed EXCEPT ![s] = TRUE]
    /\ closes' = [closes EXCEPT !.repos[s] = @ + 1]
    /\ pc' = [pc EXCEPT ![s] = "done"]
    /\ UNCHANGED <<envVars, dropped, cancelled, page, numRepos, got, outVars, histVars>>

\* ---- merge -------------------------------------------------------------------
\* variant of OutputSend: the inner loop stops after the first item of a batch
OutputSendFirstOnly(s) ==
    /\ opc[s] = "send"
    /\ ~mainDone
    /\ received' = [received EXCEPT ![s] = Append(@, items[s][idx[s]])]
    /\ idx' = [idx EXCEPT ![s] = @ + 1]
    /\ opc' = [opc EXCEPT ![s] = "range"]
    /\ UNCHANGED <<envVars, closes, dropped, summary, cancelled, pagVars, items, wg, outClosed,
                   mainDone, calls, failed, emitted, lateSends>>

\* variant of OutputSend: the inner loop walks the batch from its end
OutputSendReversed(s) ==
    /\ opc[s] = "send"
    /\ ~mainDone
    /\ received' = [received EXCEPT
                        ![s] = Append(@, items[s][Len(items[s]) + 1 - idx[s]])]
    /\ idx' = [idx EXCEPT ![s] = @ + 1]
    /\ opc' = [opc EXCEPT ![s] = IF idx[s] >= Len(items[s]) THEN "range" ELSE "send"]
    /\ UNCHANGED <<envVars, closes, dropped, summary, cancelled, pagVars, items, wg, outClosed,
                   mainDone, calls, failed, emitted, lateSends>>

\* out <- item, met by main's receive in `for repo := range ...`
OutputSend(s) ==
    /\ opc[s] = "send"
    /\ ~mainDone
    /\ received' = [received EXCEPT ![s] = Append(@, items[s][idx[s]])]
    /\ idx' = [idx EXCEPT ![s] = @ + 1]
    /\ opc' = [opc EXCEPT ![s] = IF idx[s] >= Len(items[s]) THEN "range" ELSE "send"]
    /\ UNCHANGED <<envVars, closes, dropped, summary, cancelled, pagVars, items, wg, outClosed,
                   mainDone, calls, failed, emitted, lateSends>>

\* variant of OutputDone: the goroutine returns without wg.Done()
OutputDoneNoWgDone(s) ==
    /\ opc[s] = "range"
    /\ reposClosed[s]
    /\ opc' = [opc EXCEPT ![s] = "done"]
    /\ UNCHANGED <<envVars, closes, dropped, summary, cancelled, pagVars, items, idx, wg, outClosed,
                   mainDone, histVars>>

\* `range c` sees c closed and empty: the loop ends, wg.Done()
OutputDone(s) ==
    /\ opc[s] = "range"
    /\ reposClosed[s]
    /\ opc' = [opc EXCEPT ![s] = "done"]
    /\ wg' = wg - 1
    /\ UNCHANGED <<envVars, closes, dropped, summary, cancelled, pagVars, items, idx, outClosed,
                   mainDone, histVars>>

\* variant of WaitAndClose: close(out) without wg.Wait()
CloseWithoutWait ==
    /\ ~outClosed
    /\ outClosed' = TRUE
    /\ closes' = [closes EXCEPT !.out = @ + 1]
    /\ UNCHANGED <<envVars, dropped, summary, cancelled, pagVars, opc, items, idx, wg,
                   mainDone, histVars>>

\* go func() { wg.Wait(); close(out) }()
WaitAndClose ==
    /\ wg = 0
    /\ ~outClosed
    /\ outClosed' = TRUE
    /\ closes' = [closes EXCEPT !.out = @ + 1]
    /\ UNCHANGED <<envVars, dropped, summary, cancelled, pagVars, opc, items, idx, wg,
                   mainDone, histVars>>

\* ---- main ---------------------------------------------------------------------
\* the range loop over the merged channel ends once it is closed
MainExit ==
    /\ outClosed
    /\ ~mainDone
    /\ mainDone' = TRUE
    /\ UNCHANGED <<envVars, closes, dropped, summary, cancelled, pagVars, opc, items, idx, wg,
                   outClosed, histVars>>

Next ==
    \/ Cancel
    \/ \E s \in cs : GetPageOk(s)
    \/ \E s \in cs : GetPageErr(s)
    \/ \E s \in cs : SelectSend(s)
    \/ \E s \in cs : SelectDone(s)
    \/ \E s \in cs : LoopCheck(s)
    \/ \E s \in cs : CloseRepos(s)
    \/ \E s \in cs : OutputSend(s)
    \/ \E s \in cs : OutputDone(s)
    \/ WaitAndClose
    \/ MainExit

Spec == Init /\ [][Next]_vars

\* ---- config.go ---------------------------------------------------------------
\* a configuration text is about to be parsed; no fetch has been started
InitConfig ==
    /\ \/ body = [decodes |-> FALSE, cfg |-> ZeroConfig]
       \/ \E c \in Configs : body = [decodes |-> TRUE, cfg |-> c]
    /\ parser = "none"
    /\ parsed = Unparsed
    /\ adapter = "none"
    /\ ghcfg = ZeroGithub
    /\ glcfg = ZeroGitlab
    /\ lastPage = <<>>
    /\ InitPipeline({})

pipelineVars ==
    <<adapter, ghcfg, glcfg, cs, lastPage, cancelled, pagVars, outVars, histVars,
      dropped, summary, closes>>

\* func parseTomlConfig(body string) (Config, error)
ParseTomlConfig ==
    /\ parsed.status = "unparsed"
    /\ parser' = "toml"
    /\ parsed' = ParseResult(body)
    /\ UNCHANGED <<body, pipelineVars>>

\* func parseJSONConfig(r io.Reader) (Config, error)
ParseJSONConfig ==
    /\ parsed.status = "unparsed"
    /\ parser' = "json"
    /\ parsed' = ParseResult(body)
    /\ UNCHANGED <<body, pipelineVars>>

NextConfig == ParseTomlConfig \/ ParseJSONConfig

ConfigSpec == InitConfig /\ [][NextConfig]_vars

GithubSpec == InitGithub /\ [][Next]_vars

GitlabSpec == InitGitlab /\ [][Next]_vars

MainSpec == InitMain /\ [][Next]_vars

TypeOK ==
    /\ cs \subseteq 1..NumSources
    /\ cancelled \in BOOLEAN
    /\ \A s \in cs : pc[s] \in {"getPage", "select", "check", "exit", "done"}
    /\ \A s \in cs : opc[s] \in {"range", "send", "done"}
    /\ wg \in 0..NumSources

\* Go runs every goroutine that can take a step: weak fairness on each step of
\* a paginator, of a forwarding goroutine, of the closer and of main. The
\* caller's Cancel is under no obligation.
PipelineFair ==
    /\ \A s \in 1..NumSources :
        /\ WF_vars(s \in cs /\ SelectSend(s))
        /\ WF_vars(s \in cs /\ SelectDone(s))
        /\ WF_vars(s \in cs /\ LoopCheck(s))
        /\ WF_vars(s \in cs /\ CloseRepos(s))
        /\ WF_vars(s \in cs /\ OutputSend(s))
        /\ WF_vars(s \in cs /\ OutputDone(s))
    /\ WF_vars(WaitAndClose)
    /\ WF_vars(MainExit)

\* Every getPage call returns (with a page or with an error).
FairSpec ==
    /\ Spec
    /\ PipelineFair
    /\ \A s \in 1..NumSources : WF_vars(s \in cs /\ (GetPageOk(s) \/ GetPageErr(s)))

\* A getPage call may never return: the network call has no timeout of its own.
HangSpec == Spec /\ PipelineFair

\* ---- a caller that abandons the merged channel --------------------------------
\* FetchGithubRepos returns a receive-only channel and nothing obliges its
\* caller to drain it: after cancelling its context the caller leaves its
\* receive loop while the channel is still open.
StopReceiving ==
    /\ cancelled
    /\ ~mainDone
    /\ ~outClosed
    /\ mainDone' = TRUE
    /\ UNCHANGED <<envVars, closes, dropped, summary, cancelled, pagVars, opc, items, idx, wg,
                   outClosed, histVars>>

NextAbandon == Next \/ StopReceiving

\* The same goroutines under the same scheduling, every getPage call
\* returning; the caller may cancel, and may stop receiving once it has.
AbandonSpec ==
    /\ Init
    /\ [][NextAbandon]_vars
    /\ PipelineFair
    /\ \A s \in 1..NumSources : WF_vars(s \in cs /\ (GetPageOk(s) \/ GetPageErr(s)))

\* ---- operators used to state the properties ----------------------------------
\* the batches of pages a..b of source s, in page order
Pages(s, a, b) == [j \in 1..(b - a + 1) |-> PageOf(s, a + j - 1)]

\* the page indices a..b, in order
Indices(a, b) == [j \in 1..(b - a + 1) |-> a + j - 1]

RECURSIVE Flatten(_)
Flatten(batches) ==
    IF batches = <<>> THEN <<>> ELSE Head(batches) \o Flatten(Tail(batches))

BagOfSeq(q) ==
    [x \in {q[i] : i \in DOMAIN q} |-> Cardinality({i \in DOMAIN q : q[i] = x})]

RECURSIVE BagSum(_, _)
BagSum(f, S) ==
    IF S = {} THEN EmptyBag
    ELSE LET s == CHOOSE x \in S : TRUE IN BagOfSeq(f[s]) (+) BagSum(f, S \ {s})

\* all Repos main has received / all Repos of all batches accepted from the inputs
ReceivedBag == BagSum(received, cs)
SentBag == BagSum([s \in cs |-> Flatten(emitted[s])], cs)

\* per-source state read for any id of 1..NumSources, present or not
Closed(s) == IF s \in cs THEN reposClosed[s] ELSE TRUE
Failed(s) == IF s \in cs THEN failed[s] ELSE FALSE

\* ---- properties ----------------------------------------------------------------

\* C1: with no cancellation and no fetch error, a paginator whose fetcher
\* reports last-page n on every response has, once it left its loop, called
\* getPage exactly for 0..n in order and emitted exactly the batches P0..Pn in
\* order; it never calls getPage for an index above n; and it then closes its
\* stream.
C1_ExhaustionSafe ==
    \A s \in cs :
        /\ \A i \in DOMAIN calls[s] : calls[s][i] <= lastPage[s]
        /\ (pc[s] \in {"exit", "done"} /\ ~cancelled /\ ~failed[s]) =>
              /\ calls[s] = Indices(0, lastPage[s])
              /\ emitted[s] = Pages(s, 0, lastPage[s])
        /\ reposClosed[s] <=> pc[s] = "done"

C1_Exhaustion ==
    /\ []C1_ExhaustionSafe
    /\ \A s \in 1..NumSources : <>Closed(s)

C1_Witness ==
    \E s \in cs :
        /\ reposClosed[s] /\ ~cancelled /\ ~failed[s]
        /\ lastPage[s] = MaxLastPage
        /\ Len(emitted[s]) = MaxLastPage + 1

\* C2: when the getPage call for page k fails, the paginator has emitted exactly
\* the batches of pages 0..k-1, has called getPage exactly for 0..k (k once,
\* nothing above k), makes no further call or emission, and closes its stream;
\* the batches emitted before the failure still reach the consumer.
C2_FetchErrorSafe ==
    \A s \in cs :
        failed[s] =>
            LET k == calls[s][Len(calls[s])] IN
            /\ calls[s] = Indices(0, k)
            /\ emitted[s] = Pages(s, 0, k - 1)
            /\ pc[s] \in {"exit", "done"}
            /\ outClosed => received[s] = Flatten(Pages(s, 0, k - 1))

C2_FetchError ==
    /\ []C2_FetchErrorSafe
    /\ \A s \in 1..NumSources : Failed(s) ~> Closed(s)

C2_Witness ==
    \E s \in cs :
        /\ failed[s] /\ reposClosed[s] /\ outClosed
        /\ calls[s] = <<0, 1, 2>>
        /\ Len(emitted[s]) = 2
        /\ Len(received[s]) > 0

\* C3: once the merged output has closed, the multiset of Repos the consumer
\* received is exactly the multiset of the Repos of all batches sent on the
\* input streams, each with its fields unchanged.
C3_MergeMultiset ==
    outClosed => ReceivedBag = SentBag

C3_Witness ==
    /\ outClosed
    /\ cs = {1, 2}
    /\ received[1] = <<>>
    /\ Len(received[2]) = 3

\* C4: the merged output is closed only when every input stream is closed and
\* every batch received from it has been delivered in full.
C4_DrainBeforeClose ==
    outClosed =>
        \A s \in cs :
            /\ reposClosed[s]
            /\ opc[s] = "done"
            /\ received[s] = Flatten(emitted[s])

C4_Witness ==
    /\ outClosed
    /\ cs = {1, 2}
    /\ \A s \in cs : Len(received[s]) > 0

\* C5: with a consumer that keeps receiving, the merged output closes if and
\* only if every input stream closes: it is never closed before all inputs are,
\* and once all inputs are closed it does close, whether an input closed without
\* producing data or the inputs closed at different times; with no input at
\* all the closer has nothing to wait for and no record is emitted.
AllClosed == \A s \in 1..NumSources : Closed(s)

C5_NoInputSafe ==
    /\ outClosed => \A s \in cs : reposClosed[s]
    /\ cs = {} => wg = 0 /\ ReceivedBag = EmptyBag

C5_MergeTermination ==
    /\ []C5_NoInputSafe
    /\ AllClosed ~> outClosed

C5_Witness ==
    /\ outClosed
    /\ cs = {1, 2}
    /\ emitted[1] = <<>>
    /\ Len(emitted[2]) = MaxLastPage + 1

\* C6: after the cancellation signal has fired, each paginator hands at most
\* one further batch to the merger, does not fetch again after that batch, and
\* closes its stream; the merged output then closes.
C6_CancelSafe ==
    \A s \in cs :
        /\ lateSends[s] <= 1
        /\ lateSends[s] = 1 => pc[s] \in {"check", "exit", "done"}

C6_CancelStops ==
    /\ []C6_CancelSafe
    /\ cancelled ~> AllClosed
    /\ cancelled ~> outClosed

C6_Witness ==
    /\ cancelled
    /\ outClosed
    /\ cs = {1, 2}
    /\ lateSends[1] = 1
    /\ \A s \in cs : ~failed[s] /\ Len(calls[s]) <= lastPage[s]

\* C7: a paginator that is at the hand-off of a fetched page with the
\* cancellation signal already fired does not emit that page.
C7_DropInFlight ==
    [][\A s \in cs : (pc[s] = "select" /\ cancelled) => emitted'[s] = emitted[s]]_vars

\* C8: the Repos the consumer receives from one source arrive in production
\* order: page by page in increasing page index, and within one page in the
\* page's own order, whatever the other sources do.
Before(a, b) == a[2] < b[2] \/ (a[2] = b[2] /\ a[3] < b[3])

C8_SourceOrder ==
    \A s \in cs :
        /\ \A i, j \in DOMAIN received[s] :
              i < j => Before(received[s][i].Name, received[s][j].Name)
        /\ SubSeq(Flatten(emitted[s]), 1, Len(received[s])) = received[s]

C8_Witness ==
    /\ cs = {1, 2}
    /\ Len(received[1]) = 3
    /\ Len(received[2]) = 2
    /\ ~outClosed

\* C9: a getPage error of one source neither fires the shared cancellation nor
\* stops the others: every other source that meets no error and no
\* cancellation emits all its pages, everything emitted is delivered, and the
\* merged output still closes.
C9_OthersComplete ==
    outClosed =>
        \A t \in cs :
            /\ received[t] = Flatten(emitted[t])
            /\ (~failed[t] /\ ~cancelled /\ \E s \in cs : failed[s]) =>
                  received[t] = Flatten(Pages(t, 0, lastPage[t]))

C9_ErrorIsolation ==
    /\ []C9_OthersComplete
    /\ [][\A s \in cs : failed'[s] # failed[s] => cancelled' = cancelled]_vars
    /\ (\E s \in 1..NumSources : Failed(s)) ~> outClosed

C9_Witness ==
    /\ outClosed
    /\ ~cancelled
    /\ cs = {1, 2}
    /\ failed[1]
    /\ calls[1] = <<0>>
    /\ ~failed[2]
    /\ Len(received[2]) = 3

\* C10: a paginator calls getPage again only after every batch it fetched
\* before has been accepted by the merger, and while cancellation has not
\* fired it leaves the hand-off only by having its batch accepted.
C10_Backpressure ==
    [][\A s \in cs :
          /\ calls'[s] # calls[s] => Len(emitted[s]) = Len(calls[s])
          /\ (pc[s] = "select" /\ ~cancelled /\ pc'[s] # "select") =>
                emitted'[s] = Append(emitted[s], got[s])]_vars

C10_Witness ==
    \E s \in cs :
        /\ pc[s] = "select"
        /\ opc[s] = "send"
        /\ ~cancelled
        /\ page[s] = 1
        /\ Len(emitted[s]) = 1

\* C11: pages in flight per source. A fetched page is in flight while some of
\* its records have not reached the consumer.
FetchedOk(s) ==
    {calls[s][i] : i \in 1..(Len(calls[s]) - (IF failed[s] THEN 1 ELSE 0))}

Delivered(s, k) ==
    \A i \in 1..PageLen(s, k) :
        \E j \in DOMAIN received[s] : received[s][j] = Repo(s, k, i)

InFlight(s) == {k \in FetchedOk(s) : ~Delivered(s, k)}

\* C11 as stated: each source has at most one page in flight.
C11_OnePageInFlight ==
    \A s \in cs : Cardinality(InFlight(s)) <= 1

\* C11 as amended: each source has at most two pages in flight, namely the
\* page merge's output goroutine is forwarding and the page its paginator
\* fetched last (waiting at the hand-off, or dropped on cancellation); every
\* earlier page has been delivered in full.
C11_TwoPagesInFlight ==
    \A s \in cs :
        /\ Cardinality(InFlight(s)) <= 2
        /\ InFlight(s) \subseteq {Len(emitted[s]) - 1, Len(emitted[s])}
        /\ (Len(emitted[s]) - 1) \in InFlight(s) => opc[s] = "send"

C11_Witness ==
    \E s \in cs :
        /\ Cardinality(InFlight(s)) = 2
        /\ pc[s] = "select"
        /\ opc[s] = "send"

\* C12: the page indices one paginator passes to getPage are 0, 1, 2, ... in
\* that order, each once, on every run.
C12_PageIndices ==
    \A s \in cs : calls[s] = Indices(0, Len(calls[s]) - 1)

C12_Witness ==
    /\ cs = {1, 2}
    /\ failed[1]
    /\ calls[1] = <<0, 1, 2>>
    /\ dropped[2]
    /\ calls[2] = <<0, 1>>

\* C18: once the select of a paginator has taken the ctx.Done() case, the
\* paginator calls getPage no more, emits no more, and closes its stream.
Dropped(s) == IF s \in cs THEN dropped[s] ELSE FALSE

C18_BreakLeavesLoop ==
    /\ [][\A s \in cs :
             dropped[s] => calls'[s] = calls[s] /\ emitted'[s] = emitted[s]]_vars
    /\ [](\A s \in cs : dropped[s] => pc[s] \in {"check", "exit", "done"})
    /\ \A s \in 1..NumSources : Dropped(s) ~> Closed(s)

C18_Witness ==
    \E s \in cs :
        /\ dropped[s]
        /\ reposClosed[s]
        /\ page[s] < lastPage[s]

\* C19: the summary a paginator logs is accurate: num-repos is the number of
\* Repos it emitted and num-pages the number of pages it emitted.
C19_SummaryAccurate ==
    \A s \in cs :
        \A i \in DOMAIN summary[s] :
            /\ summary[s][i].numRepos = Len(Flatten(emitted[s]))
            /\ summary[s][i].numPages = Len(emitted[s])

\* C13: for every combination of the skip flags, the affiliation list names
\* owner, organization_member and collaborator exactly for the flags that are
\* false, the joined string is empty exactly when all three are set, the
\* owned/org paginator exists iff the list is non-empty and the starred
\* paginator iff SkipStarred is false; with all four flags set there is no
\* paginator, no fetch, and the closer has nothing to wait for.
WantedAffiliations(g) ==
    {a \in {"owner", "organization_member", "collaborator"} :
        \/ a = "owner" /\ ~g.SkipOwned
        \/ a = "organization_member" /\ ~g.SkipOrganisations
        \/ a = "collaborator" /\ ~g.SkipCollaborator}

C13_SkipFlags ==
    adapter = "github" =>
        /\ {affiliationList(ghcfg)[i] : i \in DOMAIN affiliationList(ghcfg)}
              = WantedAffiliations(ghcfg)
        /\ Len(affiliationList(ghcfg)) = Cardinality(WantedAffiliations(ghcfg))
        /\ affiliations(ghcfg) = "" <=> WantedAffiliations(ghcfg) = {}
        /\ WantedAffiliations(ghcfg) = {"owner", "organization_member", "collaborator"}
              => affiliations(ghcfg) = "owner,organization_member,collaborator"
        /\ 1 \in cs <=> WantedAffiliations(ghcfg) # {}
        /\ 2 \in cs <=> ~ghcfg.SkipStarred
        /\ cs \subseteq {1, 2}
        /\ (WantedAffiliations(ghcfg) = {} /\ ghcfg.SkipStarred) =>
              /\ cs = {}
              /\ wg = 0
              /\ ReceivedBag = EmptyBag
              /\ ~outClosed => ENABLED WaitAndClose

C13_Witness ==
    /\ ghcfg.SkipOwned /\ ghcfg.SkipOrganisations /\ ghcfg.SkipCollaborator
    /\ ghcfg.SkipStarred
    /\ cs = {}
    /\ outClosed
    /\ mainDone

\* C14: started with an empty API key or secret, FetchGithubRepos and
\* FetchGitlabRepos never invoke a page fetch.
C14_NoFetchWithoutCredential ==
    ((adapter = "github" /\ ghcfg.APIKey = "") \/ (adapter = "gitlab" /\ glcfg.Secret = ""))
        => \A s \in cs : calls[s] = <<>>

\* C17: Gitlab.Provider() is the configured Host when it is set and
\* "gitlab.com" otherwise, and every Repo the GitLab fetcher produces, on
\* every page, carries that value as its Provider.
C17_GitlabProvider ==
    adapter = "gitlab" =>
        LET want == IF glcfg.Host = "" THEN "gitlab.com" ELSE glcfg.Host
            repos == [s \in cs |-> got[s] \o Flatten(emitted[s]) \o received[s]]
        IN  /\ GitlabProvider(glcfg) = want
            /\ \A s \in cs : \A i \in DOMAIN repos[s] : repos[s][i].Provider = want

C17_Witness ==
    /\ adapter = "gitlab"
    /\ glcfg.Host = "git.example.com"
    /\ outClosed
    /\ Len(emitted[1]) >= 2
    /\ Len(received[1]) >= 2

\* C20: with the GitLab mapping LastPage = TotalPages = T >= 1, an uncancelled
\* error-free paginator has made exactly T getPage calls when it leaves its
\* loop.
C20_OneRequestPerPage ==
    \A s \in cs :
        (/\ adapter = "gitlab"
         /\ lastPage[s] >= 1
         /\ pc[s] \in {"exit", "done"}
         /\ ~cancelled
         /\ ~failed[s]) => Len(calls[s]) = lastPage[s]

\* C15: for a configuration whose gitlab and github sections are both
\* present, Config.Valid reports exactly one error per invalid section, in
\* the order general, gitlab, github, and returns nil exactly when no section
\* is invalid.
Rank(e) ==
    IF e = ErrMissingRoot THEN 1 ELSE IF e = ErrMissingGitlabApiKey THEN 2 ELSE 3

C15_ValidAggregates ==
    (/\ parsed.status # "unparsed"
     /\ body.decodes
     /\ body.cfg.Gitlab # NilPtr
     /\ body.cfg.Github # NilPtr) =>
        LET c == body.cfg
            errs == parsed.err.Errors
            has(e) == \E i \in DOMAIN errs : errs[i] = e
            invalid == (c.General.Root = "") \/ (c.Gitlab[1].Secret = "")
                          \/ (c.Github[1].APIKey = "")
        IN  /\ parsed.status = "returned"
            /\ has(ErrMissingRoot) <=> c.General.Root = ""
            /\ has(ErrMissingGitlabApiKey) <=> c.Gitlab[1].Secret = ""
            /\ has(ErrMissingGithubApiKey) <=> c.Github[1].APIKey = ""
            /\ \A i, j \in DOMAIN errs : i < j => Rank(errs[i]) < Rank(errs[j])
            /\ parsed.err.kind = (IF invalid THEN "manyErrors" ELSE "nil")
            /\ parsed.cfg = (IF invalid THEN ZeroConfig ELSE c)

C15_Witness ==
    /\ parsed.status = "returned"
    /\ parsed.err.Errors =
          <<ErrMissingRoot, ErrMissingGitlabApiKey, ErrMissingGithubApiKey>>

\* C16: validating a configuration whose root is set, whose present sections
\* carry their credential and whose gitlab and/or github section is absent
\* completes normally and returns no error.
C16_AbsentSectionsSkipped ==
    (/\ parsed.status # "unparsed"
     /\ body.decodes
     /\ body.cfg.General.Root # ""
     /\ body.cfg.Gitlab = NilPtr \/ body.cfg.Github = NilPtr
     /\ body.cfg.Gitlab # NilPtr => body.cfg.Gitlab[1].Secret # ""
     /\ body.cfg.Github # NilPtr => body.cfg.Github[1].APIKey # "") =>
        /\ parsed.status = "returned"
        /\ parsed.err = NilError

\* C21: after the cancellation signal has fired, every task of the pipeline
\* (each paginator goroutine, each forwarding goroutine of merge, and merge's
\* closer) eventually terminates, even if the consumer receives no further
\* Repo from the merged channel: no task stays blocked on a send forever.
PaginatorDone(s) == IF s \in cs THEN pc[s] = "done" ELSE TRUE
OutputDoneAt(s) == IF s \in cs THEN opc[s] = "done" ELSE TRUE
AllTasksDone ==
    /\ \A s \in 1..NumSources : PaginatorDone(s) /\ OutputDoneAt(s)
    /\ outClosed

C21_TasksTerminate == cancelled ~> AllTasksDone

\* C22: channel discipline, in every interleaving: each paginator's channel is
\* closed exactly once, when its goroutine ends and on whichever path it left
\* the loop (fetch error, cancellation, last page), and never before; the
\* merged channel is closed exactly once; and no goroutine stands at a send on
\* a channel that has been closed.
C22_ChannelDiscipline ==
    /\ \A s \in cs :
          /\ closes.repos[s] = (IF pc[s] = "done" THEN 1 ELSE 0)
          /\ reposClosed[s] <=> closes.repos[s] > 0
          /\ reposClosed[s] => pc[s] # "select"
    /\ closes.out = (IF outClosed THEN 1 ELSE 0)
    /\ outClosed => \A s \in cs : opc[s] # "send"
    /\ mainDone => closes.out = 1 /\ \A s \in cs : closes.repos[s] = 1

C22_Witness ==
    /\ mainDone
    /\ cs = {1, 2}
    /\ failed[1] /\ Len(emitted[1]) > 0
    /\ cancelled /\ dropped[2] /\ ~failed[2]
    /\ closes = [repos |-> [s \in cs |-> 1], out |-> 1]

====
